---- MODULE Spec2Model ----
(***************************************************************************)
(* Model of specific_grep.cpp: searchDirectoryForString (the coordinator)  *)
(* and searchFilesForString (the per-thread line scanner).                 *)
(*                                                                         *)
(* Strings are sequences of one-character strings; "" is <<>>.  A path is  *)
(* the two-element string <<"f", n>> naming the n-th directory entry.      *)
(***************************************************************************)
EXTENDS Integers, Sequences, FiniteSets, TLC

(* ------------------------------ bounds -------------------------------- *)
MaxEntries == 3
MaxWorkers == 3

(* ---------------------- the ambient file system ----------------------- *)
\* What a directory entry can be: something that is not a regular file, a
\* regular file that cannot be opened, and regular files with their lines.
NotRegular == [regular |-> FALSE, readable |-> FALSE, lines |-> <<>>]
Unreadable == [regular |-> TRUE, readable |-> FALSE, lines |-> << <<"a", "b">> >>]
EmptyFile  == [regular |-> TRUE, readable |-> TRUE, lines |-> <<>>]
ThreeLines == [regular |-> TRUE, readable |-> TRUE,
               lines |-> << <<"b", "a", "b">>, <<"b">>, <<"a">> >>]
MixedCase  == [regular |-> TRUE, readable |-> TRUE,
               lines |-> << <<"A", "b">>, <<"a", "b">> >>]
EntryKinds == {NotRegular, Unreadable, EmptyFile, ThreeLines, MixedCase}

SearchStrings == {<<"a">>, <<"a", "b">>}
RootKinds == {"directory", "missing", "file"}
ThreadCounts == (-1) .. MaxWorkers

VARIABLES
  search_string,    \* argument search_string
  root_kind,        \* what directory_path names on disk
  dir_entries,      \* the entries recursive_directory_iterator yields, in order
  thread_count,     \* argument thread_count
  pc,               \* position of searchDirectoryForString
  files_to_search,  \* local vector files_to_search
  files_per_thread, \* local files_per_thread
  i,                \* loop variable of the launch loop
  futures,          \* local vector futures: one entry per launched task
  results,          \* local vector results of the coordinator
  next_get,         \* position of the range-for over futures (1-based)
  ret,              \* the returned pair, <<>> while nothing was returned
  cerr,             \* what was written to std::cerr
  early_finish,     \* history: a task returned while a lower-indexed one had not
  main              \* the locals of main, its position and its exit status

vars == <<search_string, root_kind, dir_entries, thread_count, pc,
          files_to_search, files_per_thread, i, futures, results, next_get,
          ret, cerr, early_finish, main>>

inputs == <<search_string, root_kind, dir_entries, thread_count>>

(* ------------------------------ helpers ------------------------------- *)
RECURSIVE SeqsUpTo(_, _)
SeqsUpTo(S, n) ==
  IF n = 0 THEN {<<>>}
  ELSE LET shorter == SeqsUpTo(S, n - 1)
       IN shorter \cup {Append(s, x) : s \in {t \in shorter : Len(t) = n - 1}, x \in S}

Path(n) == <<"f", n>>
Entry(path) == dir_entries[path[2]]

npos == -1

\* std::string::find(str, pos): first position >= pos where str occurs.
RECURSIVE FindFrom(_, _, _)
FindFrom(line, str, pos) ==
  IF pos + Len(str) > Len(line) THEN npos
  ELSE IF SubSeq(line, pos + 1, pos + Len(str)) = str THEN pos
  ELSE FindFrom(line, str, pos + 1)

Find_AtStart(line, str) ==
  IF Len(str) <= Len(line) /\ SubSeq(line, 1, Len(str)) = str THEN 0 ELSE npos

Find(line, str) == FindFrom(line, str, 0)

MatchRecord_ZeroBased(tid, path, line_number, line) ==
  [thread_id |-> tid, file_path |-> path, line_number |-> line_number - 1, line |-> line]

\* The tuple emplaced for a matching line.
MatchRecord(tid, path, line_number, line) ==
  [thread_id |-> tid, file_path |-> path, line_number |-> line_number, line |-> line]

\* The tuple emplaced when results is empty: (thread_id, "", NULL, "").
Placeholder(tid) ==
  [thread_id |-> tid, file_path |-> <<>>, line_number |-> 0, line |-> <<>>]

IteratorThrows_MissingOnly(kind) == kind = "missing"

\* recursive_directory_iterator's constructor throws filesystem_error unless
\* the path names an existing directory.
IteratorThrows(kind) == kind # "directory"

RegularFiles_All(entries) == [n \in 1 .. Len(entries) |-> Path(n)]

\* The paths pushed to files_to_search: the regular files, in iteration order.
RegularFiles(entries) ==
  SelectSeq([n \in 1 .. Len(entries) |-> Path(n)], LAMBDA p : entries[p[2]].regular)

FilesPerThread_Ceil(size, count) ==
  IF count > 0 THEN (size + count - 1) \div count ELSE 0

\* files_to_search.size() / thread_count, for thread_count # 0.  The division
\* is done in size_t: a negative thread_count converts to a value of at least
\* 2^63 (2^31 with a 32-bit size_t), larger than any vector size, so the
\* quotient is 0.
FilesPerThread(size, count) ==
  IF count > 0 THEN size \div count ELSE 0

StartIndex(idx, per_thread) == idx * per_thread

EndIndex_NoRemainder(idx, per_thread, count, size) == (idx + 1) * per_thread

EndIndex(idx, per_thread, count, size) ==
  IF idx + 1 = count THEN size ELSE (idx + 1) * per_thread

Subset_SkipFirst(files, start, end) == SubSeq(files, start + 2, end)

\* vector(first + start, first + end)
Subset(files, start, end) == SubSeq(files, start + 1, end)

\* std::this_thread::get_id() of a newly started task: an id no running
\* thread has.  A fresh id is represented by the launch position; the id of a
\* thread that already ended may be handed out again.
ThreadIds(fs, idx) ==
  {idx + 1} \cup ({fs[w].thread_id : w \in {v \in 1 .. Len(fs) : fs[v].pc = "done"}}
                   \ {fs[w].thread_id : w \in {v \in 1 .. Len(fs) : fs[v].pc # "done"}})

Ready_Always(f) == TRUE

Ready_Never(f) == FALSE

Ready_Started(f) == f.pc = "done" \/ f.idx > 1

\* future.get() returns once the task has returned.
Ready(f) == f.pc = "done"

Insert_Front(into, result) == result \o into

\* results.insert(results.end(), result.begin(), result.end())
Insert(into, result) == into \o result

\* file.good() right after construction of the ifstream.
Good(entry) == entry.readable

(* -------------------------------- main -------------------------------- *)
MaxOptions == 2

\* Command-line words, as strings of characters.
OptD == <<"-", "d">>
OptDir == <<"-", "-", "d", "i", "r">>
OptL == <<"-", "l">>
OptLogFile == <<"-", "-", "l", "o", "g", "_", "f", "i", "l", "e">>
OptR == <<"-", "r">>
OptResultFile == <<"-", "-", "r", "e", "s", "u", "l", "t", "_", "f", "i", "l", "e">>
OptT == <<"-", "t">>
OptThreads == <<"-", "-", "t", "h", "r", "e", "a", "d", "s">>

ProgramPath == <<"g", ".", "e">>
Cwd == <<"c">>
DefaultThreadCount == 4

\* The option pairs a command line is built from.
OptionPairs ==
  { <<OptD, <<"d">>>>, <<OptDir, <<"x">>>>, <<OptD, <<"f">>>>,
    <<OptL, <<"o", ".", "t">>>>, <<OptLogFile, <<"o", "/">>>>,
    <<OptR, <<"o", ".", "t">>>>, <<OptResultFile, <<"o", "*">>>>,
    <<OptT, <<"2">>>>, <<OptThreads, <<"x">>>>, <<OptT, <<"1", "x">>>>,
    <<OptT, <<"0">>>>, <<<<"-", "z">>, <<"d">>>> }

RECURSIVE Flatten(_)
Flatten(pairs) ==
  IF pairs = <<>> THEN <<>> ELSE <<pairs[1][1], pairs[1][2]>> \o Flatten(Tail(pairs))

\* The command lines: the program alone; a search string and up to MaxOptions
\* option pairs; one with a dangling word; one with five pairs.
CommandLines ==
  {<<ProgramPath>>}
    \cup {<<ProgramPath, <<"a">>>> \o Flatten(ps) : ps \in SeqsUpTo(OptionPairs, MaxOptions)}
    \cup {<<ProgramPath, <<"a">>, OptD>>}
    \cup {<<ProgramPath, <<"a">>, OptT, <<"2">>, OptL, <<"o">>, OptR, <<"o">>,
            OptD, <<"d">>, OptT, <<"2">>>>}

\* What a path names on disk: the current directory holds a directory d and
\* a regular file f.
FsKind(path) ==
  IF path = Cwd \/ path = Cwd \o <<"\\", "d">> THEN "directory"
  ELSE IF path = Cwd \o <<"\\", "f">> THEN "file"
  ELSE "missing"

\* fs::exists
Exists(path) == FsKind(path) # "missing"

\* The characters the class [\w\-. ] holds, among those used here.
FilenameChars ==
  {"a", "d", "e", "f", "g", "o", "t", "x", "0", "1", "2", "_", "-", ".", " "}

\* isValidFilename: no character outside [\w\-. ].
isValidFilename(filename) ==
  ~\E k \in 1 .. Len(filename) : filename[k] \notin FilenameChars

Digits == <<"0", "1", "2", "3", "4", "5", "6", "7", "8", "9">>
IsDigit(c) == \E v \in 1 .. 10 : Digits[v] = c
DigitValue(c) == (CHOOSE v \in 1 .. 10 : Digits[v] = c) - 1

RECURSIVE ParseDigits(_, _, _)
\* The value of the longest run of digits from position pos on.
ParseDigits(str, pos, acc) ==
  IF pos <= Len(str) /\ IsDigit(str[pos])
  THEN ParseDigits(str, pos + 1, 10 * acc + DigitValue(str[pos]))
  ELSE acc

RECURSIVE SkipSpaces(_, _)
SkipSpaces(str, pos) ==
  IF pos <= Len(str) /\ str[pos] = " " THEN SkipSpaces(str, pos + 1) ELSE pos

\* std::stoi(str): leading spaces, an optional sign, then the longest run of
\* digits; what follows the digits is ignored; std::invalid_argument (ok =
\* FALSE) when there is no digit.  (std::out_of_range needs more digits than
\* the words here have.)
stoi(str) ==
  LET p == SkipSpaces(str, 1)
      neg == p <= Len(str) /\ str[p] = "-"
      from == IF p <= Len(str) /\ str[p] \in {"+", "-"} THEN p + 1 ELSE p
  IN IF from <= Len(str) /\ IsDigit(str[from])
     THEN [ok |-> TRUE,
           value |-> IF neg THEN 0 - ParseDigits(str, from, 0)
                     ELSE ParseDigits(str, from, 0)]
     ELSE [ok |-> FALSE, value |-> 0]

\* filename.substr(0, filename.find_last_of(".")): the name up to its last
\* dot, the whole name when it has none.
ProgramName(filename) ==
  LET dots == {k \in 1 .. Len(filename) : filename[k] = "."}
  IN IF dots = {} THEN filename
     ELSE SubSeq(filename, 1, (CHOOSE k \in dots : \A m \in dots : m <= k) - 1)

\* The locals of main before line 145 has run.
MainLocals(argv) ==
  [pc |-> "start", argv |-> argv, i |-> 0,
   directory_path |-> <<>>, thread_cnt |-> 0,
   dir_opt |-> FALSE, log_filename_opt |-> FALSE,
   result_filename_opt |-> FALSE, thread_cnt_opt |-> FALSE,
   log_filename |-> <<>>, result_filename |-> <<>>,
   status |-> -1, calls |-> 0]

\* searchDirectoryForString called on its own, without main.
DirectCall == [MainLocals(<<>>) EXCEPT !.pc = "none"]

(* ------------------------------- Init --------------------------------- *)
Init ==
  /\ search_string \in SearchStrings
  /\ root_kind \in RootKinds
  /\ dir_entries \in (IF root_kind = "directory"
                      THEN SeqsUpTo(EntryKinds, MaxEntries) ELSE {<<>>})
  /\ thread_count \in ThreadCounts
  /\ pc = "enumerate"
  /\ files_to_search = <<>>
  /\ files_per_thread = 0
  /\ i = 0
  /\ futures = <<>>
  /\ results = <<>>
  /\ next_get = 1
  /\ ret = <<>>
  /\ cerr = <<>>
  /\ early_finish = FALSE
  /\ main = DirectCall

(* ------------------- searchDirectoryForString ------------------------- *)
\* Lines 70-75: the directory walk that fails.
EnumerateThrows ==
  /\ pc = "enumerate"
  /\ IteratorThrows(root_kind)
  /\ pc' = "threw"
  /\ UNCHANGED <<main, inputs, files_to_search, files_per_thread, i, futures, results,
                 next_get, ret, cerr, early_finish>>

\* Lines 70-75: the directory walk.
Enumerate ==
  /\ pc = "enumerate"
  /\ ~IteratorThrows(root_kind)
  /\ files_to_search' = RegularFiles(dir_entries)
  /\ pc' = "divide"
  /\ UNCHANGED <<main, inputs, files_per_thread, i, futures, results, next_get, ret,
                 cerr, early_finish>>

\* Line 78.
Divide ==
  /\ pc = "divide"
  /\ thread_count # 0
  /\ files_per_thread' = FilesPerThread(Len(files_to_search), thread_count)
  /\ pc' = "launch"
  /\ UNCHANGED <<main, inputs, files_to_search, i, futures, results, next_get, ret,
                 cerr, early_finish>>

\* Line 78 with thread_count = 0: an integer division by zero, which is
\* undefined.  The process is killed (x86) or the quotient is some value
\* (e.g. 0 on AArch64); the value is never used, the launch loop being empty.
DivideByZero ==
  /\ pc = "divide"
  /\ thread_count = 0
  /\ \/ pc' = "crashed" /\ UNCHANGED files_per_thread
     \/ pc' = "launch" /\ files_per_thread' = 0
  /\ UNCHANGED <<main, inputs, files_to_search, i, futures, results, next_get, ret,
                 cerr, early_finish>>

\* Lines 82-90: one iteration of the launch loop.
Launch ==
  /\ pc = "launch"
  /\ i < thread_count
  /\ LET start_index == StartIndex(i, files_per_thread)
         end_index == EndIndex(i, files_per_thread, thread_count, Len(files_to_search))
     IN \E tid \in ThreadIds(futures, i) :
          futures' = Append(futures,
            [pc |-> "for", thread_id |-> tid,
             start_index |-> start_index, end_index |-> end_index,
             files_subset |-> Subset(files_to_search, start_index, end_index),
             idx |-> 1, open_files |-> 0, pos |-> 0, line_number |-> 0,
             results |-> <<>>])
  /\ i' = i + 1
  /\ UNCHANGED <<main, inputs, pc, files_to_search, files_per_thread, results, next_get,
                 ret, cerr, early_finish>>

\* Line 82: the launch loop ends.
LaunchDone ==
  /\ pc = "launch"
  /\ ~(i < thread_count)
  /\ pc' = "collect"
  /\ UNCHANGED <<main, inputs, files_to_search, files_per_thread, i, futures, results,
                 next_get, ret, cerr, early_finish>>

\* Lines 94-97: one iteration of the collection loop.
Collect ==
  /\ pc = "collect"
  /\ next_get <= Len(futures)
  /\ Ready(futures[next_get])
  /\ results' = Insert(results, futures[next_get].results)
  /\ next_get' = next_get + 1
  /\ UNCHANGED <<main, inputs, pc, files_to_search, files_per_thread, i, futures, ret,
                 cerr, early_finish>>

\* Line 100.
Return ==
  /\ pc = "collect"
  /\ next_get > Len(futures)
  /\ ret' = <<results, Len(files_to_search)>>
  /\ pc' = "returned"
  /\ UNCHANGED <<main, inputs, files_to_search, files_per_thread, i, futures, results,
                 next_get, cerr, early_finish>>

(* ----------------------- searchFilesForString ------------------------- *)
CurrentFile(f) == f.files_subset[f.idx]

\* Lines 33-35: the file was opened; the line counter starts at 0.
Opened(f) ==
  [f EXCEPT !.pc = "getline", !.open_files = f.open_files + 1, !.pos = 0,
            !.line_number = 0]

OpenFailed_Break(f) ==
  [f EXCEPT !.idx = Len(f.files_subset) + 1]

OpenFailed_Erase(f) ==
  [f EXCEPT !.files_subset = SubSeq(f.files_subset, 1, f.idx - 1)
                               \o SubSeq(f.files_subset, f.idx + 1, Len(f.files_subset))]

\* Lines 46-49: the file was not opened; the loop goes on with the next file.
OpenFailed(f) ==
  [f EXCEPT !.idx = f.idx + 1]

Report_Nothing(stream, path) == stream

\* Line 47: the message written to std::cerr, represented by the path it names.
Report(stream, path) == Append(stream, path)

\* Lines 28-33, 46-48: open the next file of the subset.
OpenFile(w) ==
  /\ w \in 1 .. Len(futures)
  /\ futures[w].pc = "for"
  /\ futures[w].idx <= Len(futures[w].files_subset)
  /\ LET f == futures[w]
         path == CurrentFile(f)
     IN IF Good(Entry(path))
        THEN /\ futures' = [futures EXCEPT ![w] = Opened(f)]
             /\ UNCHANGED cerr
        ELSE /\ futures' = [futures EXCEPT ![w] = OpenFailed(f)]
             /\ cerr' = Report(cerr, path)
  /\ UNCHANGED <<main, inputs, pc, files_to_search, files_per_thread, i, results, next_get,
                 ret, early_finish>>

\* Lines 36-42: one iteration of the getline loop.
GetLine(w) ==
  /\ w \in 1 .. Len(futures)
  /\ futures[w].pc = "getline"
  /\ futures[w].pos < Len(Entry(CurrentFile(futures[w])).lines)
  /\ LET f == futures[w]
         line == Entry(CurrentFile(f)).lines[f.pos + 1]
         line_number == f.line_number + 1
     IN futures' = [futures EXCEPT
          ![w].pos = f.pos + 1,
          ![w].line_number = line_number,
          ![w].results = IF Find(line, search_string) # npos
                         THEN Append(f.results,
                                MatchRecord(f.thread_id, CurrentFile(f), line_number, line))
                         ELSE f.results]
  /\ UNCHANGED <<main, inputs, pc, files_to_search, files_per_thread, i, results, next_get,
                 ret, cerr, early_finish>>

Closed_Leak(f) ==
  [f EXCEPT !.pc = "for", !.idx = f.idx + 1]

\* Line 43: file.close(), and the loop goes on with the next file.
Closed(f) ==
  [f EXCEPT !.pc = "for", !.open_files = f.open_files - 1, !.idx = f.idx + 1]

\* Lines 36, 43: getline fails at end of file; the file is closed.
CloseFile(w) ==
  /\ w \in 1 .. Len(futures)
  /\ futures[w].pc = "getline"
  /\ ~(futures[w].pos < Len(Entry(CurrentFile(futures[w])).lines))
  /\ futures' = [futures EXCEPT ![w] = Closed(futures[w])]
  /\ UNCHANGED <<main, inputs, pc, files_to_search, files_per_thread, i, results, next_get,
                 ret, cerr, early_finish>>

Returned_Always(res, tid) == Append(res, Placeholder(tid))

Returned_AsIs(res, tid) == res

\* Lines 51-56: what the task returns.
Returned(res, tid) ==
  IF res = <<>> THEN <<Placeholder(tid)>> ELSE res

\* Lines 28, 51-56: the file loop ends and the task returns.
WorkerReturn(w) ==
  /\ w \in 1 .. Len(futures)
  /\ futures[w].pc = "for"
  /\ ~(futures[w].idx <= Len(futures[w].files_subset))
  /\ futures' = [futures EXCEPT ![w].pc = "done",
                   ![w].results = Returned(futures[w].results, futures[w].thread_id)]
  /\ early_finish' = (early_finish \/ \E v \in 1 .. (w - 1) : futures[v].pc # "done")
  /\ UNCHANGED <<main, inputs, pc, files_to_search, files_per_thread, i, results, next_get,
                 ret, cerr>>

Next ==
  \/ EnumerateThrows
  \/ Enumerate
  \/ Divide
  \/ DivideByZero
  \/ Launch
  \/ LaunchDone
  \/ Collect
  \/ Return
  \/ \E w \in 1 .. Len(futures) : OpenFile(w)
  \/ \E w \in 1 .. Len(futures) : GetLine(w)
  \/ \E w \in 1 .. Len(futures) : CloseFile(w)
  \/ \E w \in 1 .. Len(futures) : WorkerReturn(w)

Spec == Init /\ [][Next]_vars

\* The steps of the thread that runs searchDirectoryForString.
CoordinatorStep ==
  \/ EnumerateThrows \/ Enumerate \/ Divide \/ DivideByZero
  \/ Launch \/ LaunchDone \/ Collect \/ Return

\* The steps of the thread std::async started for the w-th task.
WorkerStep(w) == OpenFile(w) \/ GetLine(w) \/ CloseFile(w) \/ WorkerReturn(w)

\* Every thread that can take a step is eventually scheduled.
FairSpec ==
  /\ Init
  /\ [][Next]_vars
  /\ WF_vars(CoordinatorStep)
  /\ \A w \in 1 .. (MaxWorkers + 1) : WF_vars(WorkerStep(w))

(* -------------------------------- main -------------------------------- *)
argc == Len(main.argv)
\* argv[k] of the source (0-based).
Argv(k) == main.argv[k + 1]
additional_options_cnt == (argc - 2) \div 2

Exit(status) == [main EXCEPT !.pc = "exit", !.status = status]

scan_vars == <<inputs, pc, files_to_search, files_per_thread, i, futures, results,
               next_get, ret, cerr, early_finish>>

\* What main starts from: a command line, a listing of the directory that
\* will be searched, and searchDirectoryForString not yet called.
MainInit ==
  /\ main \in {MainLocals(argv) : argv \in CommandLines}
  /\ search_string = <<>>
  /\ root_kind = "directory"
  /\ dir_entries = <<ThreeLines, Unreadable>>
  /\ thread_count = 0
  /\ pc = "not called"
  /\ files_to_search = <<>>
  /\ files_per_thread = 0
  /\ i = 0
  /\ futures = <<>>
  /\ results = <<>>
  /\ next_get = 1
  /\ ret = <<>>
  /\ cerr = <<>>
  /\ early_finish = FALSE

\* Lines 128-137.
Usage ==
  /\ main.pc = "start"
  /\ argc = 1
  /\ main' = Exit(1)
  /\ UNCHANGED scan_vars

\* Lines 139-142.
WrongArgumentCount ==
  /\ main.pc = "start"
  /\ argc # 1
  /\ ~(argc % 2 = 0) \/ argc > 10
  /\ main' = Exit(1)
  /\ UNCHANGED scan_vars

\* Lines 145-154, 157: the defaults; the option loop starts.
Defaults ==
  /\ main.pc = "start"
  /\ argc # 1
  /\ ~(~(argc % 2 = 0) \/ argc > 10)
  /\ main' = [main EXCEPT !.pc = "options", !.i = 1,
                          !.directory_path = Cwd,
                          !.thread_cnt = DefaultThreadCount,
                          !.log_filename = ProgramName(Argv(0)),
                          !.result_filename = ProgramName(Argv(0))]
  /\ UNCHANGED scan_vars

InLoop == main.pc = "options" /\ main.i <= additional_options_cnt
Option == Argv(main.i * 2)
Value == Argv(main.i * 2 + 1)

\* Lines 159-174.
DirOption ==
  /\ InLoop
  /\ Option = OptD \/ Option = OptDir
  /\ main' = IF main.dir_opt THEN Exit(1)
             ELSE IF ~Exists(main.directory_path \o <<"\\">> \o Value) THEN Exit(1)
             ELSE [main EXCEPT !.directory_path = main.directory_path \o <<"\\">> \o Value,
                               !.dir_opt = TRUE, !.i = main.i + 1]
  /\ UNCHANGED scan_vars

\* Lines 176-189.
LogOption ==
  /\ InLoop
  /\ ~(Option = OptD \/ Option = OptDir)
  /\ Option = OptL \/ Option = OptLogFile
  /\ main' = IF main.log_filename_opt THEN Exit(1)
             ELSE IF ~isValidFilename(Value) THEN Exit(1)
             ELSE [main EXCEPT !.log_filename = Value, !.log_filename_opt = TRUE,
                               !.i = main.i + 1]
  /\ UNCHANGED scan_vars

\* Lines 191-204.
ResultOption ==
  /\ InLoop
  /\ ~(Option = OptD \/ Option = OptDir)
  /\ ~(Option = OptL \/ Option = OptLogFile)
  /\ Option = OptR \/ Option = OptResultFile
  /\ main' = IF main.result_filename_opt THEN Exit(1)
             ELSE IF ~isValidFilename(Value) THEN Exit(1)
             ELSE [main EXCEPT !.result_filename = Value, !.result_filename_opt = TRUE,
                               !.i = main.i + 1]
  /\ UNCHANGED scan_vars

\* Lines 206-221.
ThreadOption ==
  /\ InLoop
  /\ ~(Option = OptD \/ Option = OptDir)
  /\ ~(Option = OptL \/ Option = OptLogFile)
  /\ ~(Option = OptR \/ Option = OptResultFile)
  /\ Option = OptT \/ Option = OptThreads
  /\ main' = IF main.thread_cnt_opt THEN Exit(1)
             ELSE IF ~stoi(Value).ok THEN Exit(1)
             ELSE [main EXCEPT !.thread_cnt = stoi(Value).value, !.thread_cnt_opt = TRUE,
                               !.i = main.i + 1]
  /\ UNCHANGED scan_vars

\* Lines 223-226.
UnknownOption ==
  /\ InLoop
  /\ Option \notin {OptD, OptDir, OptL, OptLogFile, OptR, OptResultFile, OptT, OptThreads}
  /\ main' = Exit(1)
  /\ UNCHANGED scan_vars

\* Line 230: the call of searchDirectoryForString.
CallScan ==
  /\ main.pc = "options"
  /\ ~(main.i <= additional_options_cnt)
  /\ pc = "not called"
  /\ main' = [main EXCEPT !.pc = "scanning", !.calls = main.calls + 1]
  /\ search_string' = Argv(1)
  /\ root_kind' = FsKind(main.directory_path)
  /\ thread_count' = main.thread_cnt
  /\ pc' = "enumerate"
  /\ UNCHANGED <<dir_entries, files_to_search, files_per_thread, i, futures, results,
                 next_get, ret, cerr, early_finish>>

\* Line 233.
MainReturn ==
  /\ main.pc = "scanning"
  /\ pc = "returned"
  /\ main' = Exit(0)
  /\ UNCHANGED scan_vars

\* Line 230: the exception of the directory walk is not caught;
\* std::terminate ends the process.
MainTerminate ==
  /\ main.pc = "scanning"
  /\ pc = "threw"
  /\ main' = [main EXCEPT !.pc = "terminated"]
  /\ UNCHANGED scan_vars

MainNext ==
  \/ Usage
  \/ WrongArgumentCount
  \/ Defaults
  \/ DirOption
  \/ LogOption
  \/ ResultOption
  \/ ThreadOption
  \/ UnknownOption
  \/ CallScan
  \/ MainReturn
  \/ MainTerminate
  \/ EnumerateThrows
  \/ Enumerate
  \/ Divide
  \/ DivideByZero
  \/ Launch
  \/ LaunchDone
  \/ Collect
  \/ Return
  \/ \E w \in 1 .. Len(futures) : OpenFile(w)
  \/ \E w \in 1 .. Len(futures) : GetLine(w)
  \/ \E w \in 1 .. Len(futures) : CloseFile(w)
  \/ \E w \in 1 .. Len(futures) : WorkerReturn(w)

MainSpec == MainInit /\ [][MainNext]_vars

(* ===================== properties of the partition ==================== *)
RECURSIVE ConcatUpTo(_, _)
\* f(1) \o f(2) \o ... \o f(n)
ConcatUpTo(f, n) == IF n = 0 THEN <<>> ELSE ConcatUpTo(f, n - 1) \o f[n]

Launched == 1 .. Len(futures)
AllLaunched == thread_count >= 1 /\ Len(futures) = thread_count
L == Len(files_to_search)
Range(f) == {k \in Int : f.start_index <= k /\ k < f.end_index} \cap (0 .. MaxEntries + 1)

\* C1: for W >= 1 the index ranges [start_i, end_i) handed to the tasks lie in
\* 0..L with start_i <= end_i, each begins where the previous one ends, the
\* first at 0 and the last at L, they are pairwise disjoint, each subset is
\* the slice of files_to_search at its range, and the subsets concatenated
\* in launch order are files_to_search.
C1_PartitionCoverage ==
  thread_count >= 1 =>
    /\ \A w \in Launched :
         /\ 0 <= futures[w].start_index
         /\ futures[w].start_index <= futures[w].end_index
         /\ futures[w].end_index <= L
         /\ futures[w].start_index = (IF w = 1 THEN 0 ELSE futures[w - 1].end_index)
         /\ futures[w].files_subset =
              [k \in 1 .. (futures[w].end_index - futures[w].start_index) |->
                 files_to_search[futures[w].start_index + k]]
    /\ \A v, w \in Launched : v # w => Range(futures[v]) \cap Range(futures[w]) = {}
    /\ AllLaunched =>
         /\ futures[thread_count].end_index = L
         /\ ConcatUpTo([w \in Launched |-> futures[w].files_subset], thread_count)
              = files_to_search
         /\ UNION {Range(futures[w]) : w \in Launched} = 0 .. (L - 1)

\* A split with a remainder: more than one task, L not a multiple of W.
C1_Witness ==
  /\ AllLaunched
  /\ thread_count >= 2
  /\ L % thread_count # 0
  /\ L > thread_count

\* C10: for W >= 1 every subset but the last has floor(L/W) files and the
\* last has L - (W-1)*floor(L/W); with W > L all but the last are empty and
\* the last holds all L files, and the call still returns.
C10_PartitionSize ==
  thread_count >= 1 =>
    /\ \A w \in Launched :
         Len(futures[w].files_subset) =
           (IF w < thread_count THEN L \div thread_count
            ELSE L - (thread_count - 1) * (L \div thread_count))
    /\ thread_count > L =>
         /\ \A w \in Launched :
              futures[w].files_subset = (IF w < thread_count THEN <<>> ELSE files_to_search)
         /\ root_kind = "directory" => pc \notin {"threw", "crashed"}

\* More tasks than files, and the call has returned.
C10_Witness ==
  /\ pc = "returned"
  /\ thread_count > L
  /\ L >= 1
  /\ thread_count >= 2
  /\ futures[1].files_subset = <<>>
  /\ futures[thread_count].files_subset = files_to_search

(* ====================== properties of the result ====================== *)
\* str occurs in line as a contiguous substring.
Occurs(str, line) ==
  \E a \in 0 .. Len(line) :
    /\ a + Len(str) <= Len(line)
    /\ \A k \in 1 .. Len(str) : line[a + k] = str[k]

IsPlaceholder(r) == r.file_path = <<>> /\ r.line_number = 0 /\ r.line = <<>>
Triple(r) == <<r.file_path, r.line_number, r.line>>
RealOf(recs) == SelectSeq(recs, LAMBDA r : ~IsPlaceholder(r))
TriplesOf(recs) == {Triple(recs[k]) : k \in 1 .. Len(recs)}

RegularEntries == {n \in 1 .. Len(dir_entries) : dir_entries[n].regular}
ReadableEntries == {n \in RegularEntries : dir_entries[n].readable}
MatchingLines(n) ==
  {k \in 1 .. Len(dir_entries[n].lines) : Occurs(search_string, dir_entries[n].lines[k])}
\* One triple per matching line of every readable regular file.
Expected ==
  UNION {{<<Path(n), k, dir_entries[n].lines[k]>> : k \in MatchingLines(n)} :
         n \in ReadableEntries}

\* C2: for W >= 1 and an existing root the returned pair has second = number
\* of regular files found, and the non-placeholder records of first are one
\* record per matching line of every readable regular file, each exactly once
\* and from exactly one task.
C2_EndToEnd ==
  (pc = "returned" /\ thread_count >= 1) =>
    /\ ret[2] = Cardinality(RegularEntries)
    /\ TriplesOf(RealOf(ret[1])) = Expected
    /\ Len(RealOf(ret[1])) = Cardinality(Expected)
    /\ \A e \in Expected :
         Cardinality({w \in Launched : e \in TriplesOf(futures[w].results)}) = 1

\* A returned scan in which tasks finished out of launch order, matches came
\* from two tasks, and a regular file that cannot be opened was present.
C2_Witness ==
  /\ pc = "returned"
  /\ thread_count >= 2
  /\ early_finish
  /\ \E v, w \in Launched : v # w /\ RealOf(futures[v].results) # <<>>
                                  /\ RealOf(futures[w].results) # <<>>
  /\ RegularEntries # ReadableEntries

\* Position of a path in a task's subset.
PosIn(subset, path) == CHOOSE k \in 1 .. Len(subset) : subset[k] = path

\* C3: the returned record list is the tasks' record lists concatenated in
\* launch order, whatever order the tasks finished in; within one task the
\* records are in the order of its subset, and within a file in ascending
\* line number.
C3_Ordering ==
  (pc = "returned" /\ thread_count >= 1) =>
    /\ ret[1] = ConcatUpTo([w \in Launched |-> futures[w].results], Len(futures))
    /\ \A w \in Launched :
         LET real == RealOf(futures[w].results)
             subset == futures[w].files_subset
         IN \A a, b \in 1 .. Len(real) :
              a < b =>
                \/ PosIn(subset, real[a].file_path) < PosIn(subset, real[b].file_path)
                \/ /\ real[a].file_path = real[b].file_path
                   /\ real[a].line_number < real[b].line_number

\* Tasks finished out of launch order; two tasks have records, one of them
\* from two files and with two lines of one file.
C3_Witness ==
  /\ pc = "returned"
  /\ early_finish
  /\ \E v, w \in Launched :
       /\ v < w
       /\ RealOf(futures[v].results) # <<>>
       /\ LET real == RealOf(futures[w].results)
          IN \E a, b, c \in 1 .. Len(real) :
               /\ real[a].file_path = real[b].file_path
               /\ real[a].line_number # real[b].line_number
               /\ real[c].file_path # real[a].file_path

\* C4: for W >= 1 exactly W tasks are launched, the w-th on the w-th
\* partition, and the coordinator has not returned while a task is running.
C4_ForkJoin ==
  thread_count >= 1 =>
    /\ Len(futures) <= thread_count
    /\ pc \in {"collect", "returned"} => Len(futures) = thread_count
    /\ \A w \in Launched :
         futures[w].start_index = StartIndex(w - 1, L \div thread_count)
    /\ pc = "returned" => \A w \in Launched : futures[w].pc = "done"
    /\ \A w \in 1 .. (next_get - 1) : w \in Launched /\ futures[w].pc = "done"

\* The coordinator returned after several tasks that had files to scan.
C4_Witness ==
  /\ pc = "returned"
  /\ thread_count = MaxWorkers
  /\ early_finish
  /\ \A w \in Launched : futures[w].files_subset # <<>> /\ futures[w].pc = "done"

\* C5: for W <= 0 the scan fails before any file is enumerated, any
\* partition is computed or any task launched, and returns nothing.
C5_InvalidWorkerCount ==
  thread_count <= 0 =>
    /\ pc \notin {"divide", "launch", "collect", "returned", "crashed"}
    /\ files_to_search = <<>>
    /\ futures = <<>>
    /\ ret = <<>>

(* ==================== properties of the line scanner ================== *)
\* Task w is about to open a file that cannot be opened, and moves.
FailedOpenStep(w) ==
  /\ w \in Launched
  /\ futures[w].pc = "for"
  /\ futures[w].idx <= Len(futures[w].files_subset)
  /\ ~Entry(CurrentFile(futures[w])).readable
  /\ futures'[w] # futures[w]

\* C6: a step of a task at a file that cannot be opened writes the failure
\* to the diagnostic stream, adds no record, leaves the task in its file loop
\* at the next file, changes no other task and nothing of the coordinator;
\* and the returned list holds every match of the readable files.
C6_FaultIsolation ==
  /\ [][\A w \in Launched :
          FailedOpenStep(w) =>
            /\ cerr' = Append(cerr, CurrentFile(futures[w]))
            /\ futures'[w].results = futures[w].results
            /\ futures'[w].pc = "for"
            /\ futures'[w].idx = futures[w].idx + 1
            /\ futures'[w].files_subset = futures[w].files_subset
            /\ \A v \in Launched : v # w => futures'[v] = futures[v]
            /\ UNCHANGED <<pc, results, next_get, ret, files_to_search>>]_vars
  /\ []((pc = "returned" /\ thread_count >= 1) => Expected \subseteq TriplesOf(ret[1]))
  /\ [](pc # "returned" => ret = <<>>)

\* A returned scan where one task had a file that cannot be opened followed
\* by a readable file with a match, and that match is in the result.
C6_Witness ==
  /\ pc = "returned"
  /\ cerr # <<>>
  /\ \E w \in Launched :
       \E a, b \in 1 .. Len(futures[w].files_subset) :
         /\ a < b
         /\ ~Entry(futures[w].files_subset[a]).readable
         /\ Entry(futures[w].files_subset[b]).readable
         /\ \E r \in TriplesOf(ret[1]) : r[1] = futures[w].files_subset[b]

\* The records of res for one file.
RecordsOf(res, path) == SelectSeq(res, LAMBDA r : r.file_path = path)
\* The matching line numbers of lines 1..n, ascending.
MatchesUpTo(lines, n) ==
  SelectSeq([k \in 1 .. n |-> k], LAMBDA k : Occurs(search_string, lines[k]))
\* How many lines of the m-th file of its subset task f has read.
LinesRead(f, m) ==
  IF m < f.idx THEN Len(Entry(f.files_subset[m]).lines)
  ELSE IF m = f.idx /\ f.pc = "getline" THEN f.pos
  ELSE 0

\* C7: for every opened file the records of a task for that file are, in
\* order, one record (path, k, Lk) for each line k read so far in which the
\* search string occurs, and no other; while a file is being read the line
\* counter equals the number of lines read from it, matching or not.
C7_MatchCompleteness ==
  \A w \in Launched :
    LET f == futures[w]
    IN /\ \A m \in 1 .. Len(f.files_subset) :
            LET path == f.files_subset[m]
                recs == RecordsOf(f.results, path)
                want == IF Entry(path).readable
                        THEN MatchesUpTo(Entry(path).lines, LinesRead(f, m))
                        ELSE <<>>
            IN /\ Len(recs) = Len(want)
               /\ \A k \in 1 .. Len(want) :
                    recs[k] = MatchRecord(f.thread_id, path, want[k],
                                          Entry(path).lines[want[k]])
       /\ f.pc = "getline" => f.line_number = f.pos

\* A task has read a file whose first and third lines match and whose second
\* does not, the search string occurring inside the first line.
C7_Witness ==
  \E w \in Launched :
    LET f == futures[w]
    IN /\ f.pc = "getline"
       /\ f.line_number = 3
       /\ Len(RecordsOf(f.results, CurrentFile(f))) = 2
       /\ f.results[Len(f.results)].line_number = 3
       /\ Find(Entry(CurrentFile(f)).lines[1], search_string) > 0

\* Number of matching lines in the readable files of a subset.
MatchCount(subset) ==
  Cardinality({<<m, k>> \in (1 .. Len(subset)) \X (1 .. 3) :
                 /\ Entry(subset[m]).readable
                 /\ k <= Len(Entry(subset[m]).lines)
                 /\ Occurs(search_string, Entry(subset[m]).lines[k])})

\* C8: the list a task returns is exactly one placeholder (empty path, line
\* number 0, empty text) when its subset had no matching line in a file that
\* could be opened, and holds no placeholder otherwise.
C8_Placeholder ==
  \A w \in Launched :
    futures[w].pc = "done" =>
      IF MatchCount(futures[w].files_subset) = 0
      THEN /\ Len(futures[w].results) = 1
           /\ IsPlaceholder(futures[w].results[1])
           /\ RealOf(futures[w].results) = <<>>
      ELSE /\ \A k \in 1 .. Len(futures[w].results) : ~IsPlaceholder(futures[w].results[k])
           /\ Len(futures[w].results) = MatchCount(futures[w].files_subset)

\* Two finished tasks: one whose files all failed to open returned the
\* placeholder alone, one with a match returned no placeholder.
C8_Witness ==
  \E v, w \in Launched :
    /\ futures[v].pc = "done" /\ futures[w].pc = "done"
    /\ futures[v].files_subset # <<>>
    /\ \A m \in 1 .. Len(futures[v].files_subset) : ~Entry(futures[v].files_subset[m]).readable
    /\ futures[v].results = <<Placeholder(futures[v].thread_id)>>
    /\ RealOf(futures[w].results) # <<>>
    /\ RealOf(futures[w].results) = futures[w].results

\* C9: when the root does not exist or is not a directory the call ends with
\* the exception of the directory walk; no file is listed, no partition is
\* computed, no task is launched and nothing is returned.
C9_MissingRoot ==
  root_kind # "directory" =>
    /\ pc \in {"enumerate", "threw"}
    /\ files_to_search = <<>>
    /\ futures = <<>>
    /\ results = <<>>
    /\ ret = <<>>

\* The walk of a root that is not a directory has ended in the exception.
C9_Witness ==
  /\ root_kind = "file"
  /\ pc = "threw"
  /\ thread_count >= 1

(* ===================== identity and placeholders ====================== *)
\* The tasks that produced a record carrying thread id t.
ProducersOf(t) ==
  {w \in Launched : \E k \in 1 .. Len(futures[w].results) : futures[w].results[k].thread_id = t}

\* C11: every record carries the identifier of the task that produced it,
\* and the identifiers of the tasks of one scan are pairwise distinct, so two
\* records carry the same identifier only if the same task produced them,
\* also when one task finishes before another is started.
C11_WorkerIdentity ==
  /\ \A w \in Launched :
       \A k \in 1 .. Len(futures[w].results) :
         futures[w].results[k].thread_id = futures[w].thread_id
  /\ \A v, w \in Launched : v # w => futures[v].thread_id # futures[w].thread_id
  /\ \A t \in 1 .. (MaxWorkers + 1) : Cardinality(ProducersOf(t)) <= 1

\* C12: every record of a matching line has a non-empty path and a line
\* number of at least 1; every other record is the placeholder (empty path,
\* line number 0, empty text); so selecting the records with line number 0
\* and empty path selects exactly the placeholders, one per task without a
\* match, and leaves exactly the records of the matching lines.
C12_PlaceholderDistinct ==
  /\ \A w \in Launched :
       \A k \in 1 .. Len(futures[w].results) :
         LET r == futures[w].results[k]
         IN \/ /\ r.file_path # <<>>
               /\ r.line_number >= 1
               /\ Triple(r) \in Expected
            \/ /\ r = Placeholder(futures[w].thread_id)
               /\ futures[w].pc = "done"
               /\ MatchCount(futures[w].files_subset) = 0
  /\ (pc = "returned" /\ thread_count >= 1) =>
       LET filtered == SelectSeq(ret[1], LAMBDA r : r.line_number = 0 /\ r.file_path = <<>>)
           kept == SelectSeq(ret[1], LAMBDA r : ~(r.line_number = 0 /\ r.file_path = <<>>))
       IN /\ Len(filtered) =
               Cardinality({w \in Launched : MatchCount(futures[w].files_subset) = 0})
          /\ TriplesOf(kept) = Expected
          /\ Len(kept) = Cardinality(Expected)

\* A returned list with a placeholder and with a record of a first line.
C12_Witness ==
  /\ pc = "returned"
  /\ \E a, b \in 1 .. Len(ret[1]) :
       /\ IsPlaceholder(ret[1][a])
       /\ ret[1][b].line_number = 1
       /\ ret[1][b].file_path # <<>>

(* ================== empty file set, handles, volume =================== *)
\* C13: with an existing root that holds no regular file and W >= 1 the call
\* does not fail, and what it returns is the count 0 and a list without any
\* match: one placeholder per task.
C13_EmptyFileSet ==
  (thread_count >= 1 /\ root_kind = "directory" /\ RegularEntries = {}) =>
    /\ pc \notin {"threw", "crashed"}
    /\ files_to_search = <<>>
    /\ pc = "returned" =>
         /\ ret[2] = 0
         /\ RealOf(ret[1]) = <<>>
         /\ Len(ret[1]) = thread_count
         /\ \A k \in 1 .. Len(ret[1]) : IsPlaceholder(ret[1][k])

\* The call returned for a root whose only entries are not regular files.
C13_Witness ==
  /\ pc = "returned"
  /\ thread_count >= 2
  /\ RegularEntries = {}
  /\ dir_entries # <<>>
  /\ ret[2] = 0

RECURSIVE OpenUpTo(_)
\* Number of open file handles of tasks 1..n.
OpenUpTo(n) == IF n = 0 THEN 0 ELSE OpenUpTo(n - 1) + futures[n].open_files
OpenHandles == OpenUpTo(Len(futures))

\* C14: a task holds at most one open file, and only while it reads it; it
\* opens a file only when it holds none; so at most W files are open at any
\* time, and none when the coordinator has returned.
C14_BoundedHandles ==
  /\ [](\A w \in Launched :
          /\ futures[w].open_files \in {0, 1}
          /\ futures[w].open_files = 1 <=> futures[w].pc = "getline")
  /\ [](thread_count >= 1 => OpenHandles <= thread_count)
  /\ [](pc = "returned" => OpenHandles = 0)
  /\ [][\A w \in Launched :
          futures'[w].open_files > futures[w].open_files => futures[w].open_files = 0]_vars

\* Every task of a scan with several tasks has a file open at the same time,
\* one of them its second file.
C14_Witness ==
  /\ thread_count >= 2
  /\ Len(futures) = thread_count
  /\ OpenHandles = thread_count
  /\ \E w \in Launched : futures[w].idx = 2

\* The tasks whose subset has no matching line in a file that opens.
TasksWithoutMatch == {w \in Launched : MatchCount(futures[w].files_subset) = 0}

\* C19: for W >= 1 the returned list holds, in launch order, a non-empty run
\* of records from each of the W tasks, so it has at least W records; its
\* placeholders number the tasks without a match, and its length is the
\* number of matching lines plus the number of those tasks.
C19_Participation ==
  (pc = "returned" /\ thread_count >= 1) =>
    /\ Len(futures) = thread_count
    /\ \A w \in Launched : futures[w].results # <<>>
    /\ ret[1] = ConcatUpTo([w \in Launched |-> futures[w].results], thread_count)
    /\ Len(ret[1]) >= thread_count
    /\ ret[1] # <<>>
    /\ Len(SelectSeq(ret[1], IsPlaceholder)) = Cardinality(TasksWithoutMatch)
    /\ Len(ret[1]) = Cardinality(Expected) + Cardinality(TasksWithoutMatch)

\* A returned list with placeholders of two tasks and matches of a third.
C19_Witness ==
  /\ pc = "returned"
  /\ thread_count = 3
  /\ Cardinality(TasksWithoutMatch) = 2
  /\ Cardinality(Expected) >= 2
  /\ Len(ret[1]) = Cardinality(Expected) + 2

(* ======================= effects of the scan ========================== *)
\* C15: no step of the coordinator or of a task writes to an output stream:
\* std::cerr is as it was when the coordinator was called.
C15_NeverPrints == cerr = <<>>

\* C15 as amended: the only writes are the messages of failed opens: a step
\* changes std::cerr only if it is a task's step at a file that cannot be
\* opened, and then it appends one message naming that file; when the
\* coordinator has returned, std::cerr holds exactly one message for every
\* regular file that could not be opened, and nothing when all could.
C15_PrintsOnlyOpenFailures ==
  /\ [][cerr' # cerr =>
          \E w \in Launched :
            /\ FailedOpenStep(w)
            /\ cerr' = Append(cerr, CurrentFile(futures[w]))]_vars
  /\ []((pc = "returned" /\ thread_count >= 1) =>
          /\ Len(cerr) = Cardinality(RegularEntries \ ReadableEntries)
          /\ {cerr[k] : k \in 1 .. Len(cerr)} =
               {Path(n) : n \in RegularEntries \ ReadableEntries})
  /\ [](pc \in {"enumerate", "divide", "threw", "crashed"} => cerr = <<>>)

\* A returned scan in which two tasks each reported a file, and a returned
\* list that still holds a match.
C15_Witness ==
  /\ pc = "returned"
  /\ Len(cerr) = 2
  /\ \E v, w \in Launched :
       /\ v # w
       /\ \E m \in 1 .. Len(futures[v].files_subset) : futures[v].files_subset[m] = cerr[1]
       /\ \E m \in 1 .. Len(futures[w].files_subset) : futures[w].files_subset[m] = cerr[2]
  /\ RealOf(ret[1]) # <<>>

\* What a step of task w may change of the task itself: its position in its
\* subset and in the current file, its handle and its record list.
OwnFrame(w) ==
  /\ futures'[w].thread_id = futures[w].thread_id
  /\ futures'[w].files_subset = futures[w].files_subset
  /\ futures'[w].start_index = futures[w].start_index
  /\ futures'[w].end_index = futures[w].end_index

\* What a step of task w leaves alone: the arguments, the file list, the
\* other tasks and the coordinator's variables.
SharedFrame(w) ==
  /\ UNCHANGED <<search_string, root_kind, dir_entries, thread_count>>
  /\ UNCHANGED <<files_to_search, files_per_thread, pc, i, results, next_get, ret>>
  /\ Len(futures') = Len(futures)
  /\ \A v \in Launched : v # w => futures'[v] = futures[v]

\* C16: a step of a task changes only that task's record list and scan
\* position: the search string, the file list, every subset, every other
\* task and every stream are left as they were.
C16_NoSharedState ==
  [][\A w \in Launched :
       futures'[w] # futures[w] => (OwnFrame(w) /\ SharedFrame(w) /\ cerr' = cerr)]_vars

\* C16 as amended: a step of a task changes only that task's record list and
\* scan position and, when a file cannot be opened, std::cerr, which is the
\* one object all tasks write; the search string, the file list, every
\* subset and every other task are left as they were.
C16_OnlyCerrShared ==
  [][\A w \in Launched :
       futures'[w] # futures[w] =>
         /\ OwnFrame(w)
         /\ SharedFrame(w)
         /\ \/ cerr' = cerr
            \/ FailedOpenStep(w) /\ cerr' = Append(cerr, CurrentFile(futures[w]))]_vars

\* Two tasks are in the middle of their files, both with records, one after
\* a file that could not be opened.
C16_Witness ==
  \E v, w \in Launched :
    /\ v # w
    /\ futures[v].pc = "getline" /\ futures[v].results # <<>>
    /\ futures[w].pc = "getline" /\ futures[w].results # <<>>
    /\ futures[w].idx = 2
    /\ cerr = <<futures[w].files_subset[1]>>

(* ============================ termination ============================= *)
\* C17: for W >= 1 and an existing root, under fair scheduling the
\* coordinator eventually returns, with all W tasks launched and every one of
\* them finished past the last file of its subset; a task never finishes
\* before that.
C17_RunToCompletion ==
  /\ (thread_count >= 1 /\ root_kind = "directory") =>
       <>(/\ pc = "returned"
          /\ Len(futures) = thread_count
          /\ \A w \in Launched :
               /\ futures[w].pc = "done"
               /\ futures[w].idx = Len(futures[w].files_subset) + 1)
  /\ [](\A w \in Launched :
          futures[w].pc = "done" => futures[w].idx = Len(futures[w].files_subset) + 1)

\* The coordinator returned after three tasks, each with a file to scan, and
\* with files left unopened on the way.
C17_Witness ==
  /\ pc = "returned"
  /\ thread_count = 3
  /\ \A w \in Launched : futures[w].files_subset # <<>> /\ futures[w].pc = "done"
  /\ cerr # <<>>
  /\ RealOf(ret[1]) # <<>>

(* ============================ determinism ============================= *)
\* The triples a sequential scan of entries a..b of the file list yields.
RECURSIVE ScanFiles(_, _, _)
ScanFiles(files, a, b) ==
  IF a > b THEN <<>>
  ELSE LET n == files[a][2]
           lines == dir_entries[n].lines
           hits == IF dir_entries[n].readable
                   THEN SelectSeq([k \in 1 .. Len(lines) |-> k],
                                  LAMBDA k : Occurs(search_string, lines[k]))
                   ELSE <<>>
       IN [k \in 1 .. Len(hits) |-> <<files[a], hits[k], lines[hits[k]]>>]
            \o ScanFiles(files, a + 1, b)

\* The triples of the w-th of W tasks, computed from the inputs alone.
TaskTriples(files, W, w) ==
  LET q == Len(files) \div W
      found == ScanFiles(files, (w - 1) * q + 1, IF w = W THEN Len(files) ELSE w * q)
  IN IF found = <<>> THEN << <<<<>>, 0, <<>>>> >> ELSE found

\* The result as a function of the inputs: no scheduling enters it.
ReferenceTriples ==
  LET files == [k \in 1 .. Cardinality(RegularEntries) |->
                  Path(CHOOSE n \in RegularEntries :
                         Cardinality({m \in RegularEntries : m < n}) = k - 1)]
  IN ConcatUpTo([w \in 1 .. thread_count |-> TaskTriples(files, thread_count, w)],
                thread_count)

\* C18: for W >= 1 the returned count and the returned sequence of (path,
\* line number, text) triples are a function of the file sequence, the file
\* contents and readability, the search string and W: every interleaving
\* returns the same; only the thread ids may differ.
C18_Determinism ==
  (pc = "returned" /\ thread_count >= 1) =>
    /\ ret[2] = Cardinality(RegularEntries)
    /\ [k \in 1 .. Len(ret[1]) |-> Triple(ret[1][k])] = ReferenceTriples

\* Two returned runs that differ in schedule and thread ids are both there:
\* this one finished out of launch order and reused a thread id, with
\* matches and a placeholder in the list.
C18_Witness ==
  /\ pc = "returned"
  /\ early_finish
  /\ \E v, w \in Launched : v # w /\ futures[v].thread_id = futures[w].thread_id
  /\ \E a, b \in 1 .. Len(ret[1]) : IsPlaceholder(ret[1][a]) /\ ~IsPlaceholder(ret[1][b])

(* ============================ command line ============================ *)
OptionCount == (Len(main.argv) - 2) \div 2
OptionAt(k) == main.argv[2 * k + 1]
ValueAt(k) == main.argv[2 * k + 2]
KindOf(opt) ==
  IF opt \in {OptD, OptDir} THEN "d"
  ELSE IF opt \in {OptL, OptLogFile} THEN "l"
  ELSE IF opt \in {OptR, OptResultFile} THEN "r"
  ELSE IF opt \in {OptT, OptThreads} THEN "t"
  ELSE "unrecognized"

\* A decimal number: an optional sign and then digits only.
IsNumber(str) ==
  LET from == IF str # <<>> /\ str[1] \in {"+", "-"} THEN 2 ELSE 1
  IN from <= Len(str) /\ \A k \in from .. Len(str) : IsDigit(str[k])

ArgCountOk == Len(main.argv) >= 2 /\ Len(main.argv) % 2 = 0 /\ Len(main.argv) <= 10

\* The k-th option pair is one the claim says ends the run.
BadPair(k) ==
  \/ KindOf(OptionAt(k)) = "unrecognized"
  \/ \E j \in 1 .. (k - 1) : KindOf(OptionAt(j)) = KindOf(OptionAt(k))
  \/ KindOf(OptionAt(k)) \in {"l", "r"} /\ ~isValidFilename(ValueAt(k))
  \/ KindOf(OptionAt(k)) = "d" /\ FsKind(Cwd \o <<"\\">> \o ValueAt(k)) = "missing"
  \/ KindOf(OptionAt(k)) = "t" /\ ~IsNumber(ValueAt(k))

\* C20: main calls searchDirectoryForString at most once, and only after
\* the argument count check passed and every option pair was accepted; with
\* a repeated or unrecognized option, an invalid log or result filename, a
\* -d directory that does not exist or a thread count that is not a number,
\* the call is never made and the only exit status is 1.
C20_CliGating ==
  /\ main.calls <= 1
  /\ pc # "not called" =>
       /\ main.calls = 1
       /\ ArgCountOk
       /\ main.i > OptionCount
       /\ \A k \in 1 .. OptionCount : ~BadPair(k)
  /\ (ArgCountOk /\ \E k \in 1 .. OptionCount : BadPair(k)) =>
       /\ pc = "not called"
       /\ main.calls = 0
       /\ main.status \in {-1, 1}
       /\ main.pc \in {"start", "options", "exit"}

====
